---- MODULE Spec2Model ----
(***************************************************************************)
(* A model of nab/corpus.py: DataFile (one csv file held as a table) and   *)
(* Corpus (a dict from relative path to DataFile), together with the file  *)
(* system they read and write.                                             *)
(*                                                                         *)
(* Python objects live in `heap` and are named by their index, so that two *)
(* names for one object (aliasing) and two equal objects are different     *)
(* things.  Python strings are TLA+ strings, taken apart with Len, SubSeq  *)
(* and \o.  A dict is the sequence of its <<key, value>> pairs in          *)
(* insertion order, which is the order list(d.keys()) walks.               *)
(***************************************************************************)
EXTENDS Naturals, Sequences, FiniteSets, TLC

VARIABLES
  files,    \* the csv files on disk: absolute path -> csv text (header, rows)
  dirs,     \* the directories on disk, without a trailing separator
  heap,     \* the DataFile objects, by identity
  corpora,  \* the Corpus objects, by identity
  last,     \* the most recent call: operation, arguments, outcome
  nOps      \* number of calls made so far

vars == <<files, dirs, heap, corpora, last, nOps>>

\* ---------------------------------------------------------------- bounds
MaxOps == 2
MaxCorpora == 2

\* ------------------------------------------------------- python strings
Sep == "/"

CharAt(s, i) == SubSeq(s, i, i)

\* s.startswith(sub)
StrInPrefixOnly(sub, s) ==
  Len(sub) <= Len(s) /\ SubSeq(s, 1, Len(sub)) = sub

\* sub in s
StrIn(sub, s) ==
  \E i \in 1..(Len(s) + 1) :
    /\ i + Len(sub) - 1 <= Len(s)
    /\ SubSeq(s, i, i + Len(sub) - 1) = sub

\* s.index(sub), 0-based, for a sub that occurs in s
StrIndex(s, sub) ==
  CHOOSE i \in 0..Len(s) :
    /\ i + Len(sub) <= Len(s)
    /\ SubSeq(s, i + 1, i + Len(sub)) = sub
    /\ \A j \in 0..(i - 1) : SubSeq(s, j + 1, j + Len(sub)) # sub

\* s[n:]
StrFrom(s, n) == SubSeq(s, n + 1, Len(s))

RECURSIVE LStrip(_, _)
LStrip(s, ch) ==
  IF Len(s) > 0 /\ CharAt(s, 1) = ch THEN LStrip(SubSeq(s, 2, Len(s)), ch) ELSE s

RECURSIVE RStrip(_, _)
RStrip(s, ch) ==
  IF Len(s) > 0 /\ CharAt(s, Len(s)) = ch
  THEN RStrip(SubSeq(s, 1, Len(s) - 1), ch) ELSE s

\* s.strip(ch) for a one-character ch
StrStrip(s, ch) == RStrip(LStrip(s, ch), ch)

\* s.replace(old, new) for a one-character old
RECURSIVE StrReplace(_, _, _)
StrReplace(s, old, new) ==
  IF Len(s) = 0 THEN s
  ELSE (IF CharAt(s, 1) = old THEN new ELSE CharAt(s, 1))
         \o StrReplace(SubSeq(s, 2, Len(s)), old, new)

\* position of the last separator of p, 0 if none
LastSep(p) ==
  IF \E i \in 1..Len(p) : CharAt(p, i) = Sep
  THEN CHOOSE i \in 1..Len(p) :
         CharAt(p, i) = Sep /\ \A j \in (i + 1)..Len(p) : CharAt(p, j) # Sep
  ELSE 0

\* os.path.split(p)[1]
FileNameOf(p) == SubSeq(p, LastSep(p) + 1, Len(p))

\* os.path.dirname(p), "/" for a path directly under the root
DirName(p) == IF LastSep(p) <= 1 THEN Sep ELSE SubSeq(p, 1, LastSep(p) - 1)

\* a directory path as `dirs` holds it: no trailing separator
NormDir(p) == IF p = Sep THEN p ELSE RStrip(p, Sep)

\* the directory d and every directory above it, the root left out
RECURSIVE Ancestors(_)
Ancestors(d) == IF d = Sep \/ d = "" THEN {} ELSE {d} \cup Ancestors(DirName(d))

\* -------------------------------------------------- pandas tables and csv
\* A DataFrame is the sequence of its columns, <<name, values>>, in column
\* order; every column holds one value per row.

DfHas(df, c) == \E i \in 1..Len(df) : df[i][1] = c

DfCol(df, c) == df[CHOOSE i \in 1..Len(df) : df[i][1] = c][2]

DfColumns(df) == {df[i][1] : i \in 1..Len(df)}

DfRows(df) == IF Len(df) = 0 THEN 0 ELSE Len(df[1][2])

\* df[c] = series: an existing column is replaced where it stands, a new one
\* is appended
DfSetItem(df, c, vals) ==
  IF DfHas(df, c)
  THEN [i \in 1..Len(df) |-> IF df[i][1] = c THEN <<c, vals>> ELSE df[i]]
  ELSE Append(df, <<c, vals>>)

\* del df[c]
DfDelItem(df, c) == SelectSeq(df, LAMBDA col : col[1] # c)

\* df.to_csv(path, index=False): a header line, then one line per row
ToCsv(df) ==
  [header |-> [i \in 1..Len(df) |-> df[i][1]],
   rows   |-> [r \in 1..DfRows(df) |-> [i \in 1..Len(df) |-> df[i][2][r]]]]

\* pandas read_csv(path, header=0, parse_dates=[0])
ReadCsv(csv) ==
  [i \in 1..Len(csv.header) |->
     <<csv.header[i], [r \in 1..Len(csv.rows) |-> csv.rows[r][i]]>>]

\* What a caller may hand to modifyData as `data`
NoneValue == [kind |-> "None", vals |-> <<>>]
Series(vals) == [kind |-> "Series", vals |-> vals]
PyList(vals) == [kind |-> "list", vals |-> vals]

\* ------------------------------------------------------------ file system
IsDir(ds, p) == NormDir(p) = Sep \/ NormDir(p) \in ds

\* nab.util.absoluteFilePaths(directory): every file under the directory
AbsoluteFilePaths(fl, directory) ==
  {p \in DOMAIN fl :
     LET d == NormDir(directory) \o Sep
     IN  Len(p) > Len(d) /\ SubSeq(p, 1, Len(d)) = d}

\* nab.util.createPath(path): the directories above path are made; it fails
\* when one of them is a file
CreatePathOk(fl, path) == \A a \in Ancestors(DirName(path)) : a \notin DOMAIN fl

CreatePath(ds, path) == ds \cup Ancestors(DirName(path))

\* open(path, "w") inside to_csv: the target is no directory, and its parent is one
CanWrite(ds, path) ==
  /\ NormDir(path) = path
  /\ path \notin ds
  /\ IsDir(ds, DirName(path))

\* every enumeration of a finite set, as sequences without repetition
Orders(S) ==
  {q \in [1..Cardinality(S) -> S] : \A i, j \in 1..Cardinality(S) : q[i] = q[j] => i = j}

\* -------------------------------------------------------------- DataFile
\* DataFile.__init__
NewDataFile(fl, srcPath) ==
  [srcPath  |-> srcPath,
   fileName |-> FileNameOf(srcPath),
   data     |-> ReadCsv(fl[srcPath])]

\* modifyData without its del
ModifyDataKeepsColumn(d, columnName, data) ==
  IF data.kind = "Series"
  THEN [d EXCEPT !.data = DfSetItem(d.data, columnName, data.vals)]
  ELSE d

\* DataFile.modifyData, the edit of self.data
ModifyData(d, columnName, data) ==
  IF data.kind = "Series"
  THEN [d EXCEPT !.data = DfSetItem(d.data, columnName, data.vals)]
  ELSE IF DfHas(d.data, columnName)
       THEN [d EXCEPT !.data = DfDelItem(d.data, columnName)]
       ELSE d

\* The effects of a running call are threaded through a record
\*   [files, dirs, heap, corpora, status]
\* status is "ok" until an exception is raised, and then names it.
Now == [files |-> files, dirs |-> dirs, heap |-> heap, corpora |-> corpora,
        status |-> "ok"]

\* DataFile.write() of object id, to its own srcPath
WriteSt(st, id) ==
  LET d == st.heap[id]
  IN  IF CanWrite(st.dirs, d.srcPath)
      THEN [st EXCEPT !.files = (d.srcPath :> ToCsv(d.data)) @@ st.files]
      ELSE [st EXCEPT !.status = "IOError"]

\* DataFile.modifyData(columnName, data, write) on object id
ModifyDataSt(st, id, columnName, data, write) ==
  LET s1 == [st EXCEPT !.heap[id] = ModifyData(st.heap[id], columnName, data)]
  IN  IF write THEN WriteSt(s1, id) ELSE s1

\* ---------------------------------------------------------------- Corpus
\* d[k] = v on a dict
DictSet(d, k, v) ==
  IF \E i \in 1..Len(d) : d[i][1] = k
  THEN [i \in 1..Len(d) |-> IF d[i][1] = k THEN <<k, v>> ELSE d[i]]
  ELSE Append(d, <<k, v>>)

DictKeys(d) == {d[i][1] : i \in 1..Len(d)}

DictGet(d, k) == d[CHOOSE i \in 1..Len(d) : d[i][1] = k][2]

\* the filter of getDataFiles: ".csv" in path
IsCsvPath(path) == StrIn(".csv", path)

\* getRelativePath, the function local to getDataFiles
GetRelativePath(srcRoot, srcPath) ==
  StrReplace(
    StrStrip(StrFrom(srcPath, StrIndex(srcPath, srcRoot) + Len(srcRoot)), Sep),
    Sep, "/")

\* the dict comprehension of getDataFiles over the objects base+1 .. base+n
RECURSIVE DataFilesDict(_, _, _, _)
DataFilesDict(srcRoot, paths, base, i) ==
  IF i = 0 THEN <<>>
  ELSE DictSet(DataFilesDict(srcRoot, paths, base, i - 1),
               GetRelativePath(srcRoot, paths[i]), base + i)

\* Corpus.__init__(srcRoot), with the order in which the scan yields the files
NewCorpus(st, srcRoot, filePaths) ==
  LET paths == SelectSeq(filePaths, IsCsvPath)
      base  == Len(st.heap)
      dataFiles == DataFilesDict(srcRoot, paths, base, Len(paths))
  IN  [st EXCEPT
         !.heap = st.heap \o [i \in 1..Len(paths) |-> NewDataFile(st.files, paths[i])],
         !.corpora = Append(st.corpora,
                            [srcRoot      |-> srcRoot,
                             dataFiles    |-> dataFiles,
                             numDataFiles |-> Len(dataFiles)])]

\* the object itself in place of a copy
DeepcopyShares(id, fresh) == id

\* copy.deepcopy(dataSet): the identity of the object stored, given a fresh one
Deepcopy(id, fresh) == fresh

\* the destination of addDataSet
NewPath(srcRoot, relativePath) == srcRoot \o relativePath

\* Corpus.addDataSet(relativePath, dataSet) on corpus c
AddDataSetSt(st, c, relativePath, dataSet) ==
  LET id == Deepcopy(dataSet, Len(st.heap) + 1)
      h1 == IF id > Len(st.heap) THEN Append(st.heap, st.heap[dataSet]) ELSE st.heap
      s1 == [st EXCEPT !.heap = h1,
                       !.corpora[c].dataFiles = DictSet(@, relativePath, id)]
      newPath == NewPath(st.corpora[c].srcRoot, relativePath)
  IN  IF ~CreatePathOk(s1.files, newPath)
      THEN [s1 EXCEPT !.status = "IOError"]
      ELSE LET s2 == WriteSt([s1 EXCEPT !.dirs = CreatePath(@, newPath),
                                         !.heap[id].srcPath = newPath], id)
           IN  IF s2.status # "ok" THEN s2
               ELSE [s2 EXCEPT !.corpora[c].numDataFiles =
                                   Len(s2.corpora[c].dataFiles)]

\* the loop of addColumn over list(self.dataFiles.keys()), from entry i on;
\* data is the caller's dict, a function from the paths it holds
RECURSIVE AddColumnLoop(_, _, _, _, _, _)
AddColumnLoop(st, keys, i, columnName, data, write) ==
  IF i > Len(keys) THEN st
  ELSE IF keys[i][1] \notin DOMAIN data
       THEN [st EXCEPT !.status = "KeyError"]
       ELSE LET s1 == ModifyDataSt(st, keys[i][2], columnName,
                                   data[keys[i][1]], write)
            IN  IF s1.status # "ok" THEN s1
                ELSE AddColumnLoop(s1, keys, i + 1, columnName, data, write)

\* the loop of removeColumn
RECURSIVE RemoveColumnLoop(_, _, _, _, _)
RemoveColumnLoop(st, keys, i, columnName, write) ==
  IF i > Len(keys) THEN st
  ELSE LET s1 == ModifyDataSt(st, keys[i][2], columnName, NoneValue, write)
       IN  IF s1.status # "ok" THEN s1
           ELSE RemoveColumnLoop(s1, keys, i + 1, columnName, write)

\* the loop of copy: newCorpus.addDataSet for every entry of the source
RECURSIVE CopyLoop(_, _, _, _)
CopyLoop(st, new, keys, i) ==
  IF i > Len(keys) THEN st
  ELSE LET s1 == AddDataSetSt(st, new, keys[i][1], keys[i][2])
       IN  IF s1.status # "ok" THEN s1 ELSE CopyLoop(s1, new, keys, i + 1)

\* newRoot as copy uses it: a separator is appended when it does not end in one
WithSep(newRoot) ==
  IF CharAt(newRoot, Len(newRoot)) # Sep THEN newRoot \o Sep ELSE newRoot

\* the listing of the root that copy constructs its Corpus on; copy has just
\* created that directory, so the listing is empty
ScanOf(fl, root) == CHOOSE q \in Orders(AbsoluteFilePaths(fl, root)) : TRUE

\* copy without its os.path.isdir test
CopyStNoCheck(st, c, newRoot) ==
  LET root == WithSep(newRoot)
  IN  IF ~CreatePathOk(st.files, root)
      THEN [st EXCEPT !.status = "IOError"]
      ELSE LET s1 == NewCorpus([st EXCEPT !.dirs = CreatePath(@, root)], root,
                               ScanOf(st.files, root))
           IN  CopyLoop(s1, Len(s1.corpora), st.corpora[c].dataFiles, 1)

\* Corpus.copy(newRoot) on corpus c; status "None" is the None it returns for
\* an existing directory
CopySt(st, c, newRoot) ==
  LET root == WithSep(newRoot)
  IN  IF IsDir(st.dirs, root)
      THEN [st EXCEPT !.status = "None"]
      ELSE IF ~CreatePathOk(st.files, root)
           THEN [st EXCEPT !.status = "IOError"]
           ELSE LET s1 == NewCorpus([st EXCEPT !.dirs = CreatePath(@, root)],
                                    root, ScanOf(st.files, root))
                IN  CopyLoop(s1, Len(s1.corpora), st.corpora[c].dataFiles, 1)

\* relativePath.startswith(query)
QueryMatchesPrefix(query, relativePath) == StrInPrefixOnly(query, relativePath)

\* the test of getDataSubset: query in relativePath
QueryMatches(query, relativePath) == StrIn(query, relativePath)

\* Corpus.getDataSubset(query): the dict it returns
GetDataSubset(corpus, query) ==
  SelectSeq(corpus.dataFiles, LAMBDA e : QueryMatches(query, e[1]))

\* ------------------------------------------------- the inputs of the calls
Roots == {"/d", "/d/"}
NewRoots == {"/d", "/n", "/n/"}
RelPaths == {"a", "y.csv", "b/w.csv"}
Queries == {"", "a/", ".csv", "q"}
ColumnNames == {"label", "value"}
Seeds == {0, 1}
Kinds == {"Series", "list"}

\* a column of n values
Ramp(n, v) == [i \in 1..n |-> v + i - 1]

Value(kind, vals) == IF kind = "Series" THEN Series(vals) ELSE PyList(vals)

CsvX == [header |-> <<"timestamp", "value">>, rows |-> <<<<1, 10>>, <<2, 20>>>>]
CsvY == [header |-> <<"timestamp", "value">>, rows |-> <<<<1, 5>>>>]

LiveIds ==
  UNION {{corpora[c].dataFiles[i][2] : i \in 1..Len(corpora[c].dataFiles)} :
           c \in 1..Len(corpora)}

Call(op, corpus, name, data, write, arg, ds, status, out, before, undo) ==
  [op |-> op, corpus |-> corpus, name |-> name, data |-> data, write |-> write,
   arg |-> arg, ds |-> ds, status |-> status, out |-> out, before |-> before,
   undo |-> undo]

Apply(st) ==
  /\ files' = st.files
  /\ dirs' = st.dirs
  /\ heap' = st.heap
  /\ corpora' = st.corpora

\* ------------------------------------------------------------------ Init
\* A directory /d holding a/x.csv, a second table named y.csv or y.csv.b, and
\* a text file; one Corpus constructed on it.
Init ==
  \E second \in {"/d/y.csv", "/d/y.csv.b"}, srcRoot \in Roots :
    LET fl == ("/d/a/x.csv" :> CsvX) @@ (second :> CsvY) @@ ("/d/n.txt" :> CsvY)
    IN  \E scan \in Orders(AbsoluteFilePaths(fl, srcRoot)) :
          LET s == NewCorpus([files |-> fl, dirs |-> {"/d", "/d/a"}, heap |-> <<>>,
                              corpora |-> <<>>, status |-> "ok"], srcRoot, scan)
          IN  /\ files = s.files
              /\ dirs = s.dirs
              /\ heap = s.heap
              /\ corpora = s.corpora
              /\ last = Call("init", 1, "", <<>>, FALSE, srcRoot, 0, "ok", <<>>, {}, <<>>)
              /\ nOps = 0

\* --------------------------------------------------------------- actions
\* Corpus(srcRoot)
CorpusInit ==
  /\ nOps < MaxOps
  /\ Len(corpora) < MaxCorpora
  /\ \E srcRoot \in Roots :
       \E scan \in Orders(AbsoluteFilePaths(files, srcRoot)) :
         /\ Apply(NewCorpus(Now, srcRoot, scan))
         /\ last' = Call("init", Len(corpora) + 1, "", <<>>, FALSE, srcRoot, 0,
                         "ok", <<>>, {}, <<>>)
  /\ nOps' = nOps + 1

\* corpus.addColumn(columnName, data, write)
AddColumn ==
  /\ nOps < MaxOps
  /\ \E c \in 1..Len(corpora), columnName \in ColumnNames, write \in BOOLEAN,
        kind \in Kinds, seed \in Seeds :
       \E present \in SUBSET DictKeys(corpora[c].dataFiles) :
         LET keys == corpora[c].dataFiles
             data == [k \in present |->
                        Value(kind, Ramp(DfRows(heap[DictGet(keys, k)].data), seed))]
             s == AddColumnLoop(Now, keys, 1, columnName, data, write)
         IN  /\ Apply(s)
             /\ last' = Call("addColumn", c, columnName, data, write, "", 0,
                             s.status, <<>>, {}, <<>>)
  /\ nOps' = nOps + 1

\* corpus.removeColumn(columnName, write)
RemoveColumn ==
  /\ nOps < MaxOps
  /\ \E c \in 1..Len(corpora), columnName \in ColumnNames, write \in BOOLEAN :
       LET s == RemoveColumnLoop(Now, corpora[c].dataFiles, 1, columnName, write)
       IN  /\ Apply(s)
           /\ last' = Call("removeColumn", c, columnName, <<>>, write, "", 0,
                           s.status, <<>>, {}, <<>>)
  /\ nOps' = nOps + 1

\* corpus.copy(newRoot); a copy that raises hands no Corpus to the caller
Copy ==
  /\ nOps < MaxOps
  /\ \E c \in 1..Len(corpora), newRoot \in NewRoots :
       /\ Len(corpora) < MaxCorpora \/ IsDir(dirs, WithSep(newRoot))
       /\ LET s == CopySt(Now, c, newRoot)
          IN  /\ Apply(IF s.status = "IOError"
                       THEN [s EXCEPT !.corpora = corpora] ELSE s)
              /\ last' = Call("copy", c, "", <<>>, FALSE, newRoot, 0, s.status,
                              IF s.status = "ok" THEN <<Len(s.corpora)>> ELSE <<>>,
                              {}, <<>>)
  /\ nOps' = nOps + 1

\* corpus.addDataSet(relativePath, dataSet), dataSet any DataFile of a corpus
AddDataSet ==
  /\ nOps < MaxOps
  /\ \E c \in 1..Len(corpora), relativePath \in RelPaths, dataSet \in LiveIds :
       LET s == AddDataSetSt(Now, c, relativePath, dataSet)
       IN  /\ Apply(s)
           /\ last' = Call("addDataSet", c, "", <<>>, FALSE, relativePath, dataSet,
                           s.status, <<>>, {}, <<>>)
  /\ nOps' = nOps + 1

\* corpus.getDataSubset(query)
GetDataSubsetCall ==
  /\ nOps < MaxOps
  /\ \E c \in 1..Len(corpora), query \in Queries :
       last' = Call("getDataSubset", c, "", <<>>, FALSE, query, 0, "ok",
                    GetDataSubset(corpora[c], query), {}, <<>>)
  /\ nOps' = nOps + 1
  /\ UNCHANGED <<files, dirs, heap, corpora>>

\* dataFile.modifyData(columnName, data, write) on one DataFile of a corpus.
\* `before` keeps the columns the table had when the call was made, and `undo`
\* those it had before the preceding call, when that call gave the same
\* DataFile a sequence under the same column name.
ModifyDataCall ==
  /\ nOps < MaxOps
  /\ \E id \in LiveIds, columnName \in ColumnNames, write \in BOOLEAN :
     \E data \in {NoneValue} \cup
                 {Value(kind, Ramp(DfRows(heap[id].data), seed)) :
                    kind \in Kinds, seed \in Seeds} :
       LET s == ModifyDataSt(Now, id, columnName, data, write)
       IN  /\ Apply(s)
           /\ last' = Call("modifyData", 0, columnName, data, write, "", id,
                           s.status, <<>>, DfColumns(heap[id].data),
                           IF /\ last.op = "modifyData"
                              /\ last.ds = id
                              /\ last.name = columnName
                              /\ last.data.kind # "None"
                           THEN <<last.before>> ELSE <<>>)
  /\ nOps' = nOps + 1

Next ==
  \/ CorpusInit
  \/ AddColumn
  \/ RemoveColumn
  \/ Copy
  \/ AddDataSet
  \/ GetDataSubsetCall
  \/ ModifyDataCall

Spec == Init /\ [][Next]_vars

\* Copy and the column edits alone
NextCopy ==
  \/ Copy
  \/ AddColumn
  \/ RemoveColumn
  \/ ModifyDataCall

SpecCopy == Init /\ [][NextCopy]_vars

\* Queries on corpora that are built, copied and grown
NextSubset ==
  \/ GetDataSubsetCall
  \/ CorpusInit
  \/ Copy
  \/ AddDataSet

SpecSubset == Init /\ [][NextSubset]_vars

\* One DataFile edited over and over
NextDataset == ModifyDataCall

SpecDataset == Init /\ [][NextDataset]_vars

\* ------------------------------------------------- what the claims speak of
\* The step just taken is a call of op (every call advances nOps)
Called(op) == nOps' = nOps + 1 /\ last'.op = op

Entries(corpus) == {corpus.dataFiles[i] : i \in 1..Len(corpus.dataFiles)}

\* root joined with a relative key
JoinPath(root, key) ==
  IF CharAt(root, Len(root)) = Sep THEN root \o key ELSE root \o Sep \o key

\* key contains query: key is some text, then query, then some text
Contains(key, query) ==
  \E i \in 0..Len(key) : \E j \in i..Len(key) : SubSeq(key, i + 1, j) = query

\* the file name of path ends in .csv
NameEndsInCsv(path) ==
  LET n == FileNameOf(path)
  IN  Len(n) >= 4 /\ SubSeq(n, Len(n) - 3, Len(n)) = ".csv"

\* path below root, without the root and the separator after it
Below(root, path) == SubSeq(path, Len(NormDir(root)) + 2, Len(path))

\* the table of DataFile id, in a heap h
Table(h, id) == h[id].data

\* no DataFile object is an entry of two corpora
NoSharing ==
  \A c1, c2 \in 1..Len(corpora) :
    c1 # c2 =>
      {e[2] : e \in Entries(corpora[c1])} \cap {e[2] : e \in Entries(corpora[c2])} = {}

\* the corpora among cs that a call is applied to: the corpus named, the
\* corpora that hold the DataFile edited; a copy is applied to a new corpus
Targets(call, cs) ==
  IF call.op = "modifyData"
  THEN {c \in 1..Len(cs) : \E e \in Entries(cs[c]) : e[2] = call.ds}
  ELSE IF call.op = "copy" THEN {} ELSE {call.corpus}

\* the first entry of keys whose path data does not hold
FirstMissing(keys, data) ==
  CHOOSE m \in 1..Len(keys) :
    /\ keys[m][1] \notin DOMAIN data
    /\ \A i \in 1..(m - 1) : keys[i][1] \in DOMAIN data

\* C1. Bulk consistency: when addColumn(name, data) returns and data held a
\* sequence of the right length for every indexed path, every DataFile of the
\* corpus has the column name, with exactly the values given for its path.
BulkConsistency ==
  (/\ last.op = "addColumn"
   /\ last.status = "ok"
   /\ \A e \in Entries(corpora[last.corpus]) :
        /\ e[1] \in DOMAIN last.data
        /\ last.data[e[1]].kind # "None"
        /\ Len(last.data[e[1]].vals) = DfRows(Table(heap, e[2])))
  => \A e \in Entries(corpora[last.corpus]) :
       /\ DfHas(Table(heap, e[2]), last.name)
       /\ DfCol(Table(heap, e[2]), last.name) = last.data[e[1]].vals

\* C2. Copy isolation: no DataFile belongs to two corpora, and a copy or a
\* column edit (addColumn, removeColumn, modifyData) leaves every corpus it is
\* not applied to as it was: the same entries, and for each the same table
\* and srcPath.
CopyIsolation ==
  [][(\E op \in {"copy", "addColumn", "removeColumn", "modifyData"} : Called(op))
     => /\ NoSharing'
        /\ \A c \in (1..Len(corpora)) \ Targets(last', corpora) :
             /\ corpora'[c] = corpora[c]
             /\ \A e \in Entries(corpora[c]) : heap'[e[2]] = heap[e[2]]]_vars

\* C2, reached: a column has been added to a DataFile of a copy (the corpora rooted at /n/
\* are the copies), whose table now differs from the source's under the same key.
CopyIsolationWitness ==
  /\ last.op \in {"addColumn", "modifyData"}
  /\ Len(corpora) = 2
  /\ corpora[2].srcRoot = "/n/"
  /\ \E e1 \in Entries(corpora[1]), e2 \in Entries(corpora[2]) :
       /\ e1[1] = e2[1]
       /\ DfHas(Table(heap, e2[2]), "label")
       /\ ~DfHas(Table(heap, e1[2]), "label")

\* C3. numDataFiles is the number of entries of dataFiles, in every state,
\* also after a call that raised.
CountNeverStale ==
  \A c \in 1..Len(corpora) : corpora[c].numDataFiles = Len(corpora[c].dataFiles)

\* C4. After a construction or an addDataSet that returned, every key of the
\* corpus is a relative forward-slash path, and the DataFile under it has the
\* srcPath that joins the root and the key (where addDataSet wrote it).
KeyPathInvariant ==
  (last.op \in {"init", "addDataSet"} /\ last.status = "ok")
  => \A e \in Entries(corpora[last.corpus]) :
       /\ CharAt(e[1], 1) # Sep
       /\ heap[e[2]].srcPath = JoinPath(corpora[last.corpus].srcRoot, e[1])
       /\ (last.op = "addDataSet" /\ e[1] = last.arg
             => /\ heap[e[2]].srcPath \in DOMAIN files
                /\ files[heap[e[2]].srcPath] = ToCsv(Table(heap, e[2])))

\* C5. Copy completeness: copy(newRoot) with newRoot no directory returns a
\* Corpus rooted at newRoot with the keys of the source, each with the source's
\* table in memory and on disk under newRoot at the same relative path.
CopyCompleteness ==
  [][(Called("copy") /\ ~IsDir(dirs, last'.arg))
     => /\ last'.status = "ok"
        /\ last'.out = <<Len(corpora) + 1>>
        /\ LET src == corpora[last'.corpus]
               new == corpora'[Len(corpora) + 1]
           IN  /\ NormDir(new.srcRoot) = NormDir(last'.arg)
               /\ DictKeys(new.dataFiles) = DictKeys(src.dataFiles)
               /\ \A k \in DictKeys(src.dataFiles) :
                    LET t == Table(heap, DictGet(src.dataFiles, k))
                        path == JoinPath(last'.arg, k)
                    IN  /\ Table(heap', DictGet(new.dataFiles, k)) = t
                        /\ path \in DOMAIN files'
                        /\ files'[path] = ToCsv(t)]_vars

\* C6. addColumn with a path missing from data raises KeyError; the DataFiles
\* before the first missing path have the column as given (and are on disk
\* when write was asked), the one at the missing path and those after it are
\* as they were.
PartialAddColumn ==
  [][(/\ Called("addColumn")
      /\ \E e \in Entries(corpora[last'.corpus]) : e[1] \notin DOMAIN last'.data)
     => LET keys == corpora[last'.corpus].dataFiles
            m == FirstMissing(keys, last'.data)
        IN  /\ last'.status = "KeyError"
            /\ \A i \in 1..(m - 1) :
                 /\ DfHas(Table(heap', keys[i][2]), last'.name)
                 /\ DfCol(Table(heap', keys[i][2]), last'.name)
                      = last'.data[keys[i][1]].vals
                 /\ last'.write =>
                      files'[heap'[keys[i][2]].srcPath] = ToCsv(Table(heap', keys[i][2]))
            /\ \A i \in m..Len(keys) : heap'[keys[i][2]] = heap[keys[i][2]]]_vars

\* C7. copy(newRoot) onto an existing directory returns None, and changes
\* nothing: no directory, no file, no DataFile, no Corpus.
CopyOntoExistingDir ==
  [][(Called("copy") /\ IsDir(dirs, last'.arg))
     => /\ last'.status = "None"
        /\ last'.out = <<>>
        /\ UNCHANGED <<files, dirs, heap, corpora>>]_vars

\* C7, reached: a copy of a corpus with entries onto an existing directory.
CopyOntoExistingDirWitness ==
  /\ last.op = "copy"
  /\ last.status = "None"
  /\ IsDir(dirs, last.arg)
  /\ Len(corpora[last.corpus].dataFiles) > 0

\* C8, as stated. modifyData(name, values) and then modifyData(name, None) on
\* a DataFile leave it with the set of columns it had before the two calls.
ColumnInverse ==
  (last.op = "modifyData" /\ last.data.kind = "None" /\ last.undo # <<>>)
  => DfColumns(Table(heap, last.ds)) = last.undo[1]

\* C8, amended. The same, for a name that was no column of the table before
\* the two calls.
ColumnInverseFresh ==
  (/\ last.op = "modifyData"
   /\ last.data.kind = "None"
   /\ last.undo # <<>>
   /\ last.name \notin last.undo[1])
  => DfColumns(Table(heap, last.ds)) = last.undo[1]

\* C8, reached: the first call added the column, the second has run.
ColumnInverseWitness ==
  /\ last.op = "modifyData"
  /\ last.data.kind = "None"
  /\ last.undo # <<>>
  /\ last.name \notin last.undo[1]
  /\ last.name \in last.before

\* C9. Discovery: a Corpus constructed on a root holds exactly the files under
\* the root whose name ends in .csv, each under its relative path.
DiscoveryFilter ==
  last.op = "init"
  => LET c == corpora[last.corpus]
         eligible == {p \in AbsoluteFilePaths(files, c.srcRoot) : NameEndsInCsv(p)}
     IN  /\ DictKeys(c.dataFiles) = {Below(c.srcRoot, p) : p \in eligible}
         /\ \A e \in Entries(c) : heap[e[2]].srcPath \in eligible

\* C10. Subset matching: getDataSubset(query) returns exactly the entries of
\* dataFiles whose key contains query, the DataFiles themselves and not
\* copies, all of them for the empty query, and changes nothing.
SubsetMatching ==
  [][Called("getDataSubset")
     => LET c == corpora[last'.corpus]
            ans == {last'.out[i] : i \in 1..Len(last'.out)}
        IN  /\ ans = {e \in Entries(c) : Contains(e[1], last'.arg)}
            /\ Len(last'.out) = Cardinality(ans)
            /\ last'.arg = "" => ans = Entries(c)
            /\ UNCHANGED <<files, dirs, heap, corpora>>]_vars

\* C10, reached: a query that some keys contain, none of them at its start,
\* and others do not.
SubsetMatchingWitness ==
  /\ last.op = "getDataSubset"
  /\ last.arg = ".csv"
  /\ Len(last.out) > 0
  /\ Len(last.out) < Len(corpora[last.corpus].dataFiles)

====
